---------------------------- MODULE Spec2Model ----------------------------
(***************************************************************************)
(* vecmath.Vec: a 4-component vector of C floats (cython.float) with        *)
(* component-wise arithmetic, an equality that looks at x, y, z only, and   *)
(* formatted rendering.  Source: src/vecmath/vec.py.                        *)
(*                                                                         *)
(* The component type is an IEEE-754 binary floating-point number.  The    *)
(* model keeps the IEEE layout (sign, Prec significand bits, ExpBits       *)
(* exponent bits, subnormals, signed zero, two infinities, NaN, round to   *)
(* nearest even) and scales the widths down so that every value of the     *)
(* format can be enumerated.                                               *)
(***************************************************************************)
EXTENDS Integers, Naturals, Sequences, FiniteSets, TLC

\* Significand bits of the modelled float format (binary32 has 24).
Prec == 2

\* Exponent-field bits of the modelled float format (binary32 has 8).
ExpBits == 2

\* Calls one run of the object-level specification makes.
MaxCalls == 3

RECURSIVE Pow2(_)
Pow2(n) == IF n = 0 THEN 1 ELSE 2 * Pow2(n - 1)

RECURSIVE Pow10(_)
Pow10(n) == IF n = 0 THEN 1 ELSE 10 * Pow10(n - 1)

(***************************************************************************)
(* The float format.  A finite value is sgn * mag * Ulp, where Ulp is the  *)
(* smallest subnormal; mag is an integer m * 2^e with m < 2^Prec and       *)
(* 0 <= e <= MaxShift.  1.0 is OneMag * Ulp.                               *)
(***************************************************************************)
Bias == Pow2(ExpBits - 1) - 1

MaxShift == Pow2(ExpBits) - 3

OneMag == Pow2(Prec - 1) * Pow2(Bias - 1)

Mags == {m * Pow2(e) : m \in 0 .. (Pow2(Prec) - 1), e \in 0 .. MaxShift}

MaxMag == (Pow2(Prec) - 1) * Pow2(MaxShift)

\* The first magnitude past the format's range (it rounds to infinity).
OverMag == Pow2(Prec) * Pow2(MaxShift)

Fin(s, m) == [cls |-> "fin", sgn |-> s, mag |-> m]

NaN == [cls |-> "nan", sgn |-> 0, mag |-> 0]

Inf(s) == [cls |-> "inf", sgn |-> s, mag |-> 0]

PosZero == Fin(0, 0)

NegZero == Fin(1, 0)

One == Fin(0, OneMag)

\* Every value a cython.float field can hold.
Float == {Fin(s, m) : s \in {0, 1}, m \in Mags} \cup {Inf(0), Inf(1), NaN}

IsNaN(f) == f.cls = "nan"

IsFinite(f) == f.cls = "fin"

IsZero(f) == f.cls = "fin" /\ f.mag = 0

\* The signed integer (in Ulp units) a finite value stands for.
SVal(f) == IF f.sgn = 1 THEN 0 - f.mag ELSE f.mag

FNeg(f) == IF IsNaN(f) THEN NaN ELSE [f EXCEPT !.sgn = 1 - f.sgn]

\* Nearest integer to num/den, ties to even.
RoundHalfEven(num, den) ==
    LET q == num \div den
        r == num % den
    IN  IF 2 * r < den THEN q
        ELSE IF 2 * r > den THEN q + 1
        ELSE IF q % 2 = 0 THEN q ELSE q + 1

\* The binade of num/den: the least shift e >= from with num/den < 2^Prec * 2^e.
RECURSIVE ShiftOf(_, _, _)
ShiftOf(num, den, from) ==
    IF num < Pow2(Prec) * Pow2(from) * den THEN from
    ELSE ShiftOf(num, den, from + 1)

\* Round the non-negative rational num/den (in Ulp units) to the nearest
\* representable magnitude, ties to the even significand; OverMag stands
\* for overflow.
RoundMag(num, den) ==
    IF num >= OverMag * den THEN OverMag
    ELSE LET e == ShiftOf(num, den, 0)
         IN  RoundHalfEven(num, den * Pow2(e)) * Pow2(e)

\* The float for sign s and the rounded magnitude of num/den.
Rounded(s, num, den) ==
    LET m == RoundMag(num, den)
    IN  IF m = OverMag THEN Inf(s) ELSE Fin(s, m)

\* C float addition (IEEE 754, round to nearest even).
FAdd(a, b) ==
    IF IsNaN(a) \/ IsNaN(b) THEN NaN
    ELSE IF a.cls = "inf" /\ b.cls = "inf"
         THEN IF a.sgn = b.sgn THEN a ELSE NaN
    ELSE IF a.cls = "inf" THEN a
    ELSE IF b.cls = "inf" THEN b
    ELSE LET n == SVal(a) + SVal(b)
         IN  IF n = 0
             THEN IF a.sgn = 1 /\ b.sgn = 1 THEN NegZero ELSE PosZero
             ELSE IF n < 0 THEN Rounded(1, 0 - n, 1) ELSE Rounded(0, n, 1)

\* C float subtraction.
FSub(a, b) == FAdd(a, FNeg(b))

\* C float multiplication.
FMul(a, b) ==
    LET s == (a.sgn + b.sgn) % 2
    IN  IF IsNaN(a) \/ IsNaN(b) THEN NaN
        ELSE IF a.cls = "inf" \/ b.cls = "inf"
             THEN IF IsZero(a) \/ IsZero(b) THEN NaN ELSE Inf(s)
        ELSE Rounded(s, a.mag * b.mag, OneMag)

\* C/Python float comparison ==: NaN equals nothing, -0.0 equals 0.0.
FEq(a, b) ==
    /\ ~IsNaN(a)
    /\ ~IsNaN(b)
    /\ \/ a = b
       \/ IsZero(a) /\ IsZero(b)


(***************************************************************************)
(* Python's float.__format__ for the format specs the model draws: ""      *)
(* (the shortest round-trip repr), ".0f" and ".1f" (fixed point, rounded   *)
(* half to even on the exact value).                                       *)
(***************************************************************************)
FormatSpecs == {"", ".0f", ".1f"}

\* Decimal digits that write any finite value of the format exactly.
DecDigits == (Prec - 1) + (Bias - 1)

RECURSIVE Pow5(_)
Pow5(n) == IF n = 0 THEN 1 ELSE 5 * Pow5(n - 1)

RECURSIVE ZeroPad(_, _)
ZeroPad(n, width) ==
    IF width = 0 THEN "" ELSE ZeroPad(n \div 10, width - 1) \o ToString(n % 10)

RECURSIVE StripFrac(_, _)
StripFrac(n, width) ==
    IF width = 0 THEN "0"
    ELSE IF width > 1 /\ n % 10 = 0 THEN StripFrac(n \div 10, width - 1)
    ELSE ZeroPad(n, width)

\* repr of a finite magnitude: integer part, ".", exact fraction digits.
ReprMag(mag) ==
    LET q == mag * Pow5(DecDigits)
    IN  ToString(q \div Pow10(DecDigits)) \o "."
            \o StripFrac(q % Pow10(DecDigits), DecDigits)

\* "%.<digits>f" of a finite magnitude.
FixedMag(mag, digits) ==
    LET q == RoundHalfEven(mag * Pow10(digits), OneMag)
    IN  IF digits = 0 THEN ToString(q)
        ELSE ToString(q \div Pow10(digits)) \o "."
                 \o ZeroPad(q % Pow10(digits), digits)

float_format(f, spec) ==
    IF IsNaN(f) THEN "nan"
    ELSE (IF f.sgn = 1 THEN "-" ELSE "") \o
         (IF f.cls = "inf" THEN "inf"
          ELSE IF spec = "" THEN ReprMag(f.mag)
          ELSE IF spec = ".0f" THEN FixedMag(f.mag, 0)
          ELSE FixedMag(f.mag, 1))

(***************************************************************************)
(* class Vec: the four C float fields and its methods.                     *)
(***************************************************************************)
Vec == [_x : Float, _y : Float, _z : Float, _w : Float]

\* Mutation of Vec_init: the y and z arguments land in each other's field.
Vec_init_yz_swapped(args) ==
    [_x |-> IF Len(args) >= 1 THEN args[1] ELSE PosZero,
     _y |-> IF Len(args) >= 3 THEN args[3] ELSE PosZero,
     _z |-> IF Len(args) >= 2 THEN args[2] ELSE PosZero,
     _w |-> IF Len(args) >= 4 THEN args[4] ELSE PosZero]

\* Vec.__init__ called with the positional arguments args (0 to 4 of them):
\* a parameter that is not supplied takes its default 0.0.
Vec_init(args) ==
    [_x |-> IF Len(args) >= 1 THEN args[1] ELSE PosZero,
     _y |-> IF Len(args) >= 2 THEN args[2] ELSE PosZero,
     _z |-> IF Len(args) >= 3 THEN args[3] ELSE PosZero,
     _w |-> IF Len(args) >= 4 THEN args[4] ELSE PosZero]

\* The property getters.
x(self) == self._x

y(self) == self._y

z(self) == self._z

w(self) == self._w

\* The property setters: the instance after self.<c> = value.
x_setter(self, value) == [self EXCEPT !._x = value]

\* Mutation of y_setter: it writes the x field.
y_setter_writes_x(self, value) == [self EXCEPT !._x = value]

y_setter(self, value) == [self EXCEPT !._y = value]

z_setter(self, value) == [self EXCEPT !._z = value]

w_setter(self, value) == [self EXCEPT !._w = value]

\* Mutation of dot: the classical dot product of its docstring, a scalar.
dot_classic(self, other) ==
    FAdd(FAdd(FAdd(FMul(self._x, other._x), FMul(self._y, other._y)),
              FMul(self._z, other._z)), FMul(self._w, other._w))

dot(self, other) ==
    Vec_init(<<FMul(self._x, other._x), FMul(self._y, other._y),
               FMul(self._z, other._z), FMul(self._w, other._w)>>)

\* Mutation of add_vec: y is summed with the other vector's x.
add_vec_y_takes_x(self, other) ==
    Vec_init(<<FAdd(self._x, other._x), FAdd(self._y, other._x),
               FAdd(self._z, other._z), FAdd(self._w, other._w)>>)

\* Mutation of add_vec: x is summed with the other vector's w.
add_vec_x_takes_w(self, other) ==
    Vec_init(<<FAdd(self._x, other._w), FAdd(self._y, other._y),
               FAdd(self._z, other._z), FAdd(self._w, other._w)>>)

add_vec(self, other) ==
    Vec_init(<<FAdd(self._x, other._x), FAdd(self._y, other._y),
               FAdd(self._z, other._z), FAdd(self._w, other._w)>>)

\* Mutation of add_scalar: w is passed on unchanged.
add_scalar_keeps_w(self, other) ==
    Vec_init(<<FAdd(self._x, other), FAdd(self._y, other),
               FAdd(self._z, other), self._w>>)

add_scalar(self, other) ==
    Vec_init(<<FAdd(self._x, other), FAdd(self._y, other),
               FAdd(self._z, other), FAdd(self._w, other)>>)

\* Mutation of sub_vec: other - self.
sub_vec_reversed(self, other) ==
    Vec_init(<<FSub(other._x, self._x), FSub(other._y, self._y),
               FSub(other._z, self._z), FSub(other._w, self._w)>>)

sub_vec(self, other) ==
    Vec_init(<<FSub(self._x, other._x), FSub(self._y, other._y),
               FSub(self._z, other._z), FSub(self._w, other._w)>>)

sub_scalar(self, other) ==
    Vec_init(<<FSub(self._x, other), FSub(self._y, other),
               FSub(self._z, other), FSub(self._w, other)>>)

\* Mutation of Vec_eq: w is compared too.
Vec_eq_with_w(self, other) ==
    /\ FEq(self._x, other._x)
    /\ FEq(self._y, other._y)
    /\ FEq(self._z, other._z)
    /\ FEq(self._w, other._w)

\* Vec.__eq__
Vec_eq(self, other) ==
    /\ FEq(x(self), x(other))
    /\ FEq(y(self), y(other))
    /\ FEq(self._z, z(other))

\* self != other: Vec defines no __ne__, so Python inverts __eq__.
Vec_ne(self, other) == ~Vec_eq(self, other)

\* Mutation of Vec_format: the fields are joined by "," without the space.
Vec_format_no_space(self, spec) ==
    "(" \o float_format(self._x, spec) \o "," \o float_format(self._y, spec)
        \o "," \o float_format(self._z, spec) \o ","
        \o float_format(self._w, spec) \o ")"

\* Vec.__format__
Vec_format(self, spec) ==
    "(" \o float_format(self._x, spec) \o ", " \o float_format(self._y, spec)
        \o ", " \o float_format(self._z, spec) \o ", "
        \o float_format(self._w, spec) \o ")"

\* Vec.__str__
Vec_str(self) == Vec_format(self, "")


(***************************************************************************)
(* Inputs.  Argument lists for the constructor: every prefix of BaseArgs   *)
(* (four distinct finite values), BaseArgs with one argument replaced by   *)
(* any value of the format, and OtherArgs (BaseArgs reversed).             *)
(***************************************************************************)
Half == Fin(0, OneMag \div 2)

OneHalf == Fin(0, OneMag + (OneMag \div 2))

Two == Fin(0, 2 * OneMag)

BaseArgs == <<One, Half, OneHalf, Two>>

OtherArgs == <<Two, OneHalf, Half, One>>

InputArgs ==
    {SubSeq(BaseArgs, 1, k) : k \in 0 .. 4}
        \cup {[BaseArgs EXCEPT ![c] = f] : c \in 1 .. 4, f \in Float}
        \cup {OtherArgs}

InputVecs == {Vec_init(a) : a \in InputArgs}

\* Constructor argument lists and scalar values of the object-level runs.
CtorArgs == {SubSeq(BaseArgs, 1, k) : k \in 0 .. 4} \cup {<<NaN, Inf(1), NegZero>>}

ObjVals == {NaN, Two}

(***************************************************************************)
(* State.                                                                  *)
(*   Object level: heap[i] is the i-th Vec instance created (its four      *)
(*   fields); last is the call just made; ncalls counts the calls; ctor    *)
(*   and lastset are history: the call that created each instance with the *)
(*   fields it was constructed with and, per field, the value of the last  *)
(*   setter call (<<>>: none).                                             *)
(*   Method level: one call of one method on receiver with argument.       *)
(***************************************************************************)
VARIABLES heap, last, ncalls, ctor, lastset, receiver, argument, pc, result

vars == <<heap, last, ncalls, ctor, lastset, receiver, argument, pc, result>>

objvars == <<heap, last, ncalls, ctor, lastset>>

callvars == <<receiver, argument, pc, result>>

Ids == DOMAIN heap

NeverSet == [_x |-> <<>>, _y |-> <<>>, _z |-> <<>>, _w |-> <<>>]

Call(op, self, other, val, ret) ==
    [op |-> op, self |-> self, other |-> other, val |-> val, ret |-> ret]

\* Mutation of NewInstance: the fields live on the class, so every instance
\* shows the values written last.
NewInstance_shared_fields(h, v) == [i \in 1 .. (Len(h) + 1) |-> v]

\* Vec(...) creates an instance: the heap with the new instance v.
NewInstance(h, v) == Append(h, v)

\* A call that returns a freshly constructed Vec v.
Returns(op, self, other, val, v) ==
    /\ ncalls < MaxCalls
    /\ heap' = NewInstance(heap, v)
    /\ last' = Call(op, self, other, val, Len(heap'))
    /\ ncalls' = ncalls + 1
    /\ ctor' = Append(ctor, [call |-> op, fields |-> heap'[Len(heap')]])
    /\ lastset' = Append(lastset, NeverSet)
    /\ UNCHANGED callvars

\* A call that only reads: it returns ret.
Reads(op, self, other, val, ret) ==
    /\ ncalls < MaxCalls
    /\ last' = Call(op, self, other, val, ret)
    /\ ncalls' = ncalls + 1
    /\ UNCHANGED <<heap, ctor, lastset>>
    /\ UNCHANGED callvars

\* A setter call on instance i that leaves it as v.
Sets(op, i, field, value, v) ==
    /\ ncalls < MaxCalls
    /\ heap' = [heap EXCEPT ![i] = v]
    /\ last' = Call(op, i, 0, value, 0)
    /\ ncalls' = ncalls + 1
    /\ lastset' = [lastset EXCEPT ![i] = field]
    /\ UNCHANGED ctor
    /\ UNCHANGED callvars

New == \E args \in CtorArgs : Returns("new", 0, 0, args, Vec_init(args))

Dot == \E i \in Ids, j \in Ids : Returns("dot", i, j, 0, dot(heap[i], heap[j]))

AddVec ==
    \E i \in Ids, j \in Ids : Returns("add_vec", i, j, 0, add_vec(heap[i], heap[j]))

AddScalar ==
    \E i \in Ids, s \in ObjVals :
        Returns("add_scalar", i, 0, s, add_scalar(heap[i], s))

SubVec ==
    \E i \in Ids, j \in Ids : Returns("sub_vec", i, j, 0, sub_vec(heap[i], heap[j]))

SubScalar ==
    \E i \in Ids, s \in ObjVals :
        Returns("sub_scalar", i, 0, s, sub_scalar(heap[i], s))

GetX == \E i \in Ids : Reads("x", i, 0, 0, x(heap[i]))

GetY == \E i \in Ids : Reads("y", i, 0, 0, y(heap[i]))

GetZ == \E i \in Ids : Reads("z", i, 0, 0, z(heap[i]))

GetW == \E i \in Ids : Reads("w", i, 0, 0, w(heap[i]))

SetXOn(i, value) ==
    Sets("x=", i, [lastset[i] EXCEPT !._x = <<value>>], value,
         x_setter(heap[i], value))

SetX == \E i \in Ids, value \in ObjVals : SetXOn(i, value)

SetYOn(i, value) ==
    Sets("y=", i, [lastset[i] EXCEPT !._y = <<value>>], value,
         y_setter(heap[i], value))

SetY == \E i \in Ids, value \in ObjVals : SetYOn(i, value)

SetZOn(i, value) ==
    Sets("z=", i, [lastset[i] EXCEPT !._z = <<value>>], value,
         z_setter(heap[i], value))

SetZ == \E i \in Ids, value \in ObjVals : SetZOn(i, value)

SetWOn(i, value) ==
    Sets("w=", i, [lastset[i] EXCEPT !._w = <<value>>], value,
         w_setter(heap[i], value))

SetW == \E i \in Ids, value \in ObjVals : SetWOn(i, value)

Eq == \E i \in Ids, j \in Ids : Reads("eq", i, j, 0, Vec_eq(heap[i], heap[j]))

Ne == \E i \in Ids, j \in Ids : Reads("ne", i, j, 0, Vec_ne(heap[i], heap[j]))

Format ==
    \E i \in Ids, spec \in FormatSpecs :
        Reads("format", i, 0, spec, Vec_format(heap[i], spec))

Str == \E i \in Ids : Reads("str", i, 0, 0, Vec_str(heap[i]))

NoCall == Call("", 0, 0, 0, 0)

NoArgument == [kind |-> "none", val |-> 0]

Init ==
    /\ heap = <<>>
    /\ last = NoCall
    /\ ncalls = 0
    /\ ctor = <<>>
    /\ lastset = <<>>
    /\ receiver = Vec_init(<<>>)
    /\ argument = NoArgument
    /\ pc = "off"
    /\ result = NoCall

Next ==
    \/ New
    \/ Dot
    \/ AddVec
    \/ AddScalar
    \/ SubVec
    \/ SubScalar
    \/ GetX
    \/ GetY
    \/ GetZ
    \/ GetW
    \/ SetX
    \/ SetY
    \/ SetZ
    \/ SetW
    \/ Eq
    \/ Ne
    \/ Format
    \/ Str

\* Object level: any sequence of at most MaxCalls calls on the instances
\* created so far.
Spec == Init /\ [][Next]_vars

(***************************************************************************)
(* Method level: a receiver and an argument drawn from the inputs, then    *)
(* one call of a method whose signature takes that argument.               *)
(***************************************************************************)
Returned(op, ret) ==
    /\ pc = "ready"
    /\ pc' = "returned"
    /\ result' = Call(op, receiver, argument.val, 0, ret)
    /\ UNCHANGED <<receiver, argument>>
    /\ UNCHANGED objvars

CallDot ==
    /\ argument.kind = "vec"
    /\ Returned("dot", dot(receiver, argument.val))

CallAddVec ==
    /\ argument.kind = "vec"
    /\ Returned("add_vec", add_vec(receiver, argument.val))

CallAddScalar ==
    /\ argument.kind = "float"
    /\ Returned("add_scalar", add_scalar(receiver, argument.val))

CallSubVec ==
    /\ argument.kind = "vec"
    /\ Returned("sub_vec", sub_vec(receiver, argument.val))

CallSubScalar ==
    /\ argument.kind = "float"
    /\ Returned("sub_scalar", sub_scalar(receiver, argument.val))

CallEq ==
    /\ argument.kind = "vec"
    /\ Returned("eq", Vec_eq(receiver, argument.val))

CallNe ==
    /\ argument.kind = "vec"
    /\ Returned("ne", Vec_ne(receiver, argument.val))

CallFormat ==
    /\ argument.kind = "spec"
    /\ Returned("format", Vec_format(receiver, argument.val))

CallStr ==
    /\ argument.kind = "none"
    /\ Returned("str", Vec_str(receiver))

InitMethods ==
    /\ heap = <<>>
    /\ last = NoCall
    /\ ncalls = 0
    /\ ctor = <<>>
    /\ lastset = <<>>
    /\ receiver \in InputVecs
    /\ \/ \E v \in InputVecs : argument = [kind |-> "vec", val |-> v]
       \/ \E f \in Float : argument = [kind |-> "float", val |-> f]
       \/ \E spec \in FormatSpecs : argument = [kind |-> "spec", val |-> spec]
       \/ argument = NoArgument
    /\ pc = "ready"
    /\ result = NoCall

NextMethods ==
    \/ CallDot
    \/ CallAddVec
    \/ CallAddScalar
    \/ CallSubVec
    \/ CallSubScalar
    \/ CallEq
    \/ CallNe
    \/ CallFormat
    \/ CallStr

SpecMethods == InitMethods /\ [][NextMethods]_vars


(***************************************************************************)
(* Properties.                                                             *)
(***************************************************************************)
Fields == {"_x", "_y", "_z", "_w"}

XYZ == {"_x", "_y", "_z"}

\* The method-level call that has just returned.
Did(op) == pc = "returned" /\ result.op = op

\* No x, y or z field of v is NaN.
NoNaNxyz(v) == \A c \in XYZ : ~IsNaN(v[c])

\* C1: a == b is true exactly when a.x == b.x and a.y == b.y and a.z == b.z
\* (float comparison); w is not compared, so replacing the w of either
\* operand by any value leaves the outcome as it is; a != b is the negation
\* of a == b.
C1_EqComparesXYZOnly ==
    /\ Did("eq") =>
         /\ result.ret = (/\ FEq(x(result.self), x(result.other))
                          /\ FEq(y(result.self), y(result.other))
                          /\ FEq(z(result.self), z(result.other)))
         /\ \A f \in Float :
              /\ Vec_eq(w_setter(result.self, f), result.other) = result.ret
              /\ Vec_eq(result.self, w_setter(result.other, f)) = result.ret
    /\ Did("ne") => result.ret = ~Vec_eq(result.self, result.other)

\* C1 witness: two vectors that differ in w, and in nothing else, compared
\* equal.
C1_Witness ==
    /\ Did("eq")
    /\ result.ret = TRUE
    /\ ~FEq(w(result.self), w(result.other))
    /\ \A c \in XYZ : result.self[c] = result.other[c]

\* C4 as stated: after v.add_scalar(s), r.c == v.c + s (float comparison) for
\* each of the four components.
C4_AsStated ==
    Did("add_scalar") =>
        \A c \in Fields : FEq(result.ret[c], FAdd(result.self[c], result.other))

\* C4 amended: every component of v.add_scalar(s), w included, is the float
\* sum of that component and s, and compares == to it unless the sum is NaN.
C4_AddScalarAllFour ==
    Did("add_scalar") =>
        /\ x(result.ret) = FAdd(x(result.self), result.other)
        /\ y(result.ret) = FAdd(y(result.self), result.other)
        /\ z(result.ret) = FAdd(z(result.self), result.other)
        /\ w(result.ret) = FAdd(w(result.self), result.other)
        /\ \A c \in Fields :
             ~IsNaN(FAdd(result.self[c], result.other))
                 => FEq(result.ret[c], FAdd(result.self[c], result.other))

\* C4 witness: a scalar that changes all four components was added.
C4_Witness ==
    /\ Did("add_scalar")
    /\ \A c \in Fields :
         /\ IsFinite(result.ret[c])
         /\ ~FEq(result.ret[c], result.self[c])

C5_AsStated ==
    Did("add_vec") => Vec_eq(result.ret, add_vec(result.other, result.self))

\* C5 amended: a.add_vec(b) == b.add_vec(a) whenever no x, y or z component
\* of the sum is NaN; in every case the two sums have the same components.
C5_AddVecCommutes ==
    Did("add_vec") =>
        /\ result.ret = add_vec(result.other, result.self)
        /\ NoNaNxyz(result.ret)
               => Vec_eq(result.ret, add_vec(result.other, result.self))

\* C5 witness: two vectors that differ in x, y and z were added and the two
\* orders compare equal.
C5_Witness ==
    /\ Did("add_vec")
    /\ \A c \in XYZ : ~FEq(result.self[c], result.other[c])
    /\ Vec_eq(result.ret, add_vec(result.other, result.self))

\* The sum of the finite values a and b is a value of the format.
ExactSum(a, b) ==
    /\ IsFinite(a)
    /\ IsFinite(b)
    /\ LET n == SVal(a) + SVal(b)
       IN  (IF n < 0 THEN 0 - n ELSE n) \in Mags

\* C6: when the x, y and z sums of a and b are exactly representable,
\* a.add_vec(b).sub_vec(b) == a; sub_vec computes self - other.
C6_SubVecUndoesAddVec ==
    Did("add_vec") =>
        LET back == sub_vec(result.ret, result.other)
        IN  /\ \A c \in Fields : back[c] = FSub(result.ret[c], result.other[c])
            /\ (\A c \in XYZ : ExactSum(result.self[c], result.other[c]))
                   => Vec_eq(back, result.self)

\* C6 witness: an exactly representable sum of two vectors with non-zero x, y
\* and z, from which sub_vec recovers the first.
C6_Witness ==
    /\ Did("add_vec")
    /\ \A c \in XYZ :
         /\ ExactSum(result.self[c], result.other[c])
         /\ ~IsZero(result.self[c])
         /\ ~IsZero(result.other[c])
         /\ ~FEq(result.self[c], result.other[c])
    /\ Vec_eq(sub_vec(result.ret, result.other), result.self)

\* The strings of fields, joined by sep.
RECURSIVE Joined(_, _)
Joined(fields, sep) ==
    IF Len(fields) = 0 THEN ""
    ELSE IF Len(fields) = 1 THEN fields[1]
    ELSE fields[1] \o sep \o Joined(Tail(fields), sep)

\* C8: format(v, spec) is "(" + the four components x, y, z, w, each
\* formatted with spec, joined by ", " + ")"; str(v) is format(v, "").
C8_FormatFourFields ==
    /\ Did("format") =>
         result.ret =
             "(" \o Joined(<<float_format(x(result.self), result.other),
                            float_format(y(result.self), result.other),
                            float_format(z(result.self), result.other),
                            float_format(w(result.self), result.other)>>, ", ")
                 \o ")"
    /\ Did("str") => result.ret = Vec_format(result.self, "")

\* C8 witness: a vector whose four components format to four different
\* strings was formatted with a non-empty spec.
C8_Witness ==
    /\ Did("format")
    /\ result.other = ".0f"
    /\ Cardinality({float_format(result.self[c], result.other) : c \in Fields}) = 4

\* The vectors that compare equal to v (with w drawn from a few values): in
\* x, y, z the same value or a zero of the other sign; any w.
WProbe == {One, NaN}

EqualTo(v) ==
    {[_x |-> p, _y |-> q, _z |-> r, _w |-> t] :
        p \in {g \in Float : FEq(v._x, g)}, q \in {g \in Float : FEq(v._y, g)},
        r \in {g \in Float : FEq(v._z, g)}, t \in WProbe \cup {v._w}}

VecOps == {"add_vec", "sub_vec", "dot"}

ScalarOps == {"add_scalar", "sub_scalar"}

\* The method named op, applied.
Apply(op, self, other) ==
    CASE op = "add_vec" -> add_vec(self, other)
      [] op = "sub_vec" -> sub_vec(self, other)
      [] op = "dot" -> dot(self, other)
      [] op = "add_scalar" -> add_scalar(self, other)
      [] op = "sub_scalar" -> sub_scalar(self, other)

\* C10 as stated: for a == a' and b == b', op(a, b) == op(a', b') for add_vec,
\* sub_vec and dot, and a.op(s) == a'.op(s) for add_scalar and sub_scalar.
C10_AsStated ==
    /\ (pc = "returned" /\ result.op \in VecOps) =>
         \A a \in EqualTo(result.self), b \in EqualTo(result.other) :
             Vec_eq(result.ret, Apply(result.op, a, b))
    /\ (pc = "returned" /\ result.op \in ScalarOps) =>
         \A a \in EqualTo(result.self) :
             Vec_eq(result.ret, Apply(result.op, a, result.other))

\* C10 amended: for a == a' and b == b' the results of add_vec, sub_vec and
\* dot on (a, b) and on (a', b'), and of add_scalar and sub_scalar on a and
\* on a', are equal whenever no x, y or z component of the result is NaN
\* (inf - inf, 0 * inf); and the w of an operand never changes the x, y, z
\* of a result or the outcome of an equality test.
C10_EqualityIsCongruence ==
    /\ (pc = "returned" /\ result.op \in VecOps) =>
         /\ \A a \in EqualTo(result.self), b \in EqualTo(result.other) :
              /\ Vec_eq(result.self, a)
              /\ Vec_eq(result.other, b)
              /\ NoNaNxyz(result.ret)
                     => Vec_eq(result.ret, Apply(result.op, a, b))
         /\ \A t \in WProbe :
              LET r1 == Apply(result.op, w_setter(result.self, t), result.other)
                  r2 == Apply(result.op, result.self, w_setter(result.other, t))
              IN  \A c \in XYZ : r1[c] = result.ret[c] /\ r2[c] = result.ret[c]
    /\ (pc = "returned" /\ result.op \in ScalarOps) =>
         /\ \A a \in EqualTo(result.self) :
              /\ Vec_eq(result.self, a)
              /\ NoNaNxyz(result.ret)
                     => Vec_eq(result.ret, Apply(result.op, a, result.other))
         /\ \A t \in WProbe :
              LET r1 == Apply(result.op, w_setter(result.self, t), result.other)
              IN  \A c \in XYZ : r1[c] = result.ret[c]
    /\ Did("eq") =>
         \A t \in Float :
             /\ Vec_eq(w_setter(result.self, t), result.other) = result.ret
             /\ Vec_eq(result.self, w_setter(result.other, t)) = result.ret

\* C10 witness: a call on (a, b) where vectors equal to a and to b but
\* different from them exist (another w, a zero of the other sign), and the
\* result has no NaN in x, y, z.
C10_Witness ==
    /\ pc = "returned"
    /\ result.op = "sub_vec"
    /\ NoNaNxyz(result.ret)
    /\ IsZero(x(result.self))
    /\ \E a \in EqualTo(result.self), b \in EqualTo(result.other) :
         /\ x(a) # x(result.self)
         /\ w(a) # w(result.self)
         /\ w(b) # w(result.other)
         /\ Apply(result.op, a, b) # result.ret
         /\ Vec_eq(result.ret, Apply(result.op, a, b))

GetterOps == {"x", "y", "z", "w"}

SetterOps == {"x=", "y=", "z=", "w="}

\* What getter c returns on v, c counted in the order x, y, z, w.
Getter(c, v) == <<x(v), y(v), z(v), w(v)>>[c]

\* C3: Vec(a1, ..., ak) with 0 <= k <= 4 has its first k components, in the
\* order x, y, z, w, equal to a1..ak and the others 0.0, as the getters
\* return them; Vec() is (0, 0, 0, 0).
C3_ConstructorDefaults ==
    last.op = "new" =>
        /\ Len(last.val) \in 0 .. 4
        /\ \A c \in 1 .. 4 :
             Getter(c, heap[last.ret])
                 = IF c <= Len(last.val) THEN last.val[c] ELSE PosZero

\* C3 witness: Vec(a1, a2, a3) with three different non-zero values (the
\* test's Vec(3.0, 5.0, -500.0)): w is 0.0.
C3_Witness ==
    /\ last.op = "new"
    /\ Len(last.val) = 3
    /\ Cardinality({last.val[c] : c \in 1 .. 3}) = 3
    /\ \A c \in 1 .. 3 : ~IsZero(last.val[c])
    /\ x(heap[last.ret]) = last.val[1]
    /\ w(heap[last.ret]) = PosZero

\* C7: a step changes the components of an existing instance only when it
\* is a setter call on that instance; add_vec, add_scalar, sub_vec,
\* sub_scalar and dot return an instance that did not exist before (also
\* when self and other are one instance) and change no existing one;
\* getters, equality tests and formatting change nothing.
C7_OnlySettersMutate ==
    [][/\ \A i \in DOMAIN heap :
            /\ i \in DOMAIN heap'
            /\ heap'[i] # heap[i] => (last'.op \in SetterOps /\ last'.self = i)
       /\ last'.op \in VecOps \cup ScalarOps =>
            /\ last'.ret \notin DOMAIN heap
            /\ DOMAIN heap' = DOMAIN heap \cup {last'.ret}
       /\ last'.op \in GetterOps \cup SetterOps \cup {"eq", "ne", "format", "str"} =>
            DOMAIN heap' = DOMAIN heap]_vars

\* C7 witness: v.dot(v) returned instance 2, then a setter was called on the
\* result: the operand still has its constructed components.
C7_Witness ==
    /\ Len(heap) = 2
    /\ ctor[1].call = "new"
    /\ ctor[2].call = "dot"
    /\ ctor[2].fields = dot(ctor[1].fields, ctor[1].fields)
    /\ last.op \in SetterOps
    /\ last.self = 2
    /\ heap[2] # ctor[2].fields
    /\ heap[1] = ctor[1].fields
    /\ \A c \in Fields : ~IsZero(heap[1][c])

\* The value history gives field c of instance i: the last value set, or
\* the constructed one.
Expected(i, c) ==
    IF lastset[i][c] = <<>> THEN ctor[i].fields[c] ELSE lastset[i][c][1]

\* C9: every component of every instance is the value of the last setter
\* call for that component on that instance, or its constructed value when
\* there was none; after a setter call the getter of that component returns
\* the value set; a setter call is possible on any instance with any value.
C9_SettersOverwriteOwnField ==
    /\ \A i \in Ids, c \in Fields : heap[i][c] = Expected(i, c)
    /\ \A i \in Ids :
         /\ x(heap[i]) = Expected(i, "_x")
         /\ y(heap[i]) = Expected(i, "_y")
         /\ z(heap[i]) = Expected(i, "_z")
         /\ w(heap[i]) = Expected(i, "_w")
    /\ last.op \in SetterOps =>
         Getter(CHOOSE c \in 1 .. 4 : <<"x=", "y=", "z=", "w=">>[c] = last.op,
                heap[last.self]) = last.val
    /\ last.op \in GetterOps =>
         last.ret = Expected(last.self,
                             CHOOSE c \in Fields : c = "_" \o last.op)
    /\ ncalls < MaxCalls =>
         \A i \in Ids, value \in ObjVals :
             /\ ENABLED SetXOn(i, value)
             /\ ENABLED SetYOn(i, value)
             /\ ENABLED SetZOn(i, value)
             /\ ENABLED SetWOn(i, value)

\* C9 witness: y was set, then read; x, z and w were never set and still
\* have their constructed, non-zero values.
C9_Witness ==
    /\ last.op = "y"
    /\ lastset[last.self]._y # <<>>
    /\ last.ret = lastset[last.self]._y[1]
    /\ last.ret # ctor[last.self].fields._y
    /\ \A c \in {"_x", "_z", "_w"} :
         /\ lastset[last.self][c] = <<>>
         /\ ~IsZero(heap[last.self][c])
         /\ heap[last.self][c] = ctor[last.self].fields[c]

=============================================================================
